---- MODULE Spec2Model ----
(***************************************************************************)
(* geoson: GeoJSON -> FeatureCollection parser (src/src/parser.cpp).       *)
(*                                                                         *)
(* A json_value_s node is the record [t |-> type tag, v |-> payload]:      *)
(*   "string"  v = the characters          "number" v = the number's text  *)
(*   "array"   v = sequence of nodes       "object" v = sequence of        *)
(*   "true"/"false"/"null" v = <<>>                   [name, value] members*)
(* and a null pointer to a value, an object or an array is NullPtr.        *)
(* A pointer to a payload is modelled by the node that owns it.            *)
(* A std::string holding JSON text is modelled by its sequence of tokens.  *)
(* A call that may throw returns [ok, val, err].                           *)
(***************************************************************************)
EXTENDS Integers, Sequences, FiniteSets, TLC

VARIABLES
    file,      \* the input: [readable, root]; root = json_parse(content)
    pc,        \* position in ReadFeatureCollection
    fc_json,   \* the normalised document (op::ReadFeatureCollection's result)
    crsVal,    \* resolved CRS tag
    fc,        \* the FeatureCollection being built (a local of the call)
    feat,      \* 1-based position of feat_elem in the features array
    err,       \* what() of the exception that left the call, "" if none
    ret,       \* [some, fc]: the FeatureCollection handed to the caller
    gIn,       \* geometry node given to a direct parseGeometry call
    gAlt,      \* the same node cut down to its first rings
    gOut,      \* parseGeometry(gIn)
    gAltOut    \* parseGeometry(gAlt)

vars == <<file, pc, fc_json, crsVal, fc, feat, err, ret, gIn, gAlt, gOut, gAltOut>>

(* ------------------------------ bounds --------------------------------- *)
MaxFeatures == 2     \* entries of a `features` array
MaxPts == 3          \* entries of a coordinate list (line or first ring)
MaxRings == 2        \* rings of a Polygon
MaxParts == 2        \* members of a MultiLineString or MultiPolygon

(* --------------------------- small helpers ----------------------------- *)
Min(S) == CHOOSE m \in S : \A n \in S : m <= n
Max(S) == CHOOSE m \in S : \A n \in S : m >= n

RECURSIVE Flat(_)
Flat(ss) == IF ss = <<>> THEN <<>> ELSE Head(ss) \o Flat(Tail(ss))

RECURSIVE SumSeq(_)
SumSeq(ns) == IF ns = <<>> THEN 0 ELSE Head(ns) + SumSeq(Tail(ns))

Ok(v) == [ok |-> TRUE, val |-> v, err |-> ""]
Throw(msg) == [ok |-> FALSE, val |-> <<>>, err |-> msg]

(* ----------------------------- JSON nodes ------------------------------ *)
NullPtr == [t |-> "nullptr", v |-> <<>>]
JString(s) == [t |-> "string", v |-> s]
JNumber(text) == [t |-> "number", v |-> text]
JTrue == [t |-> "true", v |-> <<>>]
JFalse == [t |-> "false", v |-> <<>>]
JNull == [t |-> "null", v |-> <<>>]
JArray(elems) == [t |-> "array", v |-> elems]
JObject(members) == [t |-> "object", v |-> members]
Member(n, val) == [name |-> n, value |-> val]
NoElem == [name |-> "", value |-> NullPtr]
IsNullElem(e) == e.value.t = "nullptr"

\* The number texts of the model and std::stod on them.
NumRange == 0..9
NumTexts == {ToString(n) : n \in NumRange}
stod(text) == CHOOSE n \in NumRange : ToString(n) = text

ElemAt(obj, hits) == IF hits = {} THEN NoElem ELSE obj.v[Min(hits)]
find_element(obj, key) ==
    IF obj.t = "nullptr" THEN NoElem
    ELSE ElemAt(obj, {i \in 1..Len(obj.v) : obj.v[i].name = key})

get_string(val) == IF val.t # "string" THEN "" ELSE val.v
get_number(val) == IF val.t # "number" THEN 0 ELSE stod(val.v)
get_object(val) == IF val.t # "object" THEN NullPtr ELSE val
get_array(val) == IF val.t # "array" THEN NullPtr ELSE val

RECURSIVE serialize_value(_)
RECURSIVE SerializeMembers(_, _)
RECURSIVE SerializeElems(_, _)
serialize_value(val) ==
    CASE val.t = "nullptr" -> <<"null">>
      [] val.t = "string"  -> <<"\"", val.v, "\"">>
      [] val.t = "number"  -> <<val.v>>
      [] val.t = "true"    -> <<"true">>
      [] val.t = "false"   -> <<"false">>
      [] val.t = "null"    -> <<"null">>
      [] val.t = "object"  -> <<"{">> \o SerializeMembers(val.v, TRUE) \o <<"}">>
      [] val.t = "array"   -> <<"[">> \o SerializeElems(val.v, TRUE) \o <<"]">>
      [] OTHER             -> <<"null">>
SerializeMembers(ms, first) ==
    IF ms = <<>> THEN <<>>
    ELSE (IF first THEN <<>> ELSE <<",">>)
         \o <<"\"", Head(ms).name, "\"", ":">>
         \o serialize_value(Head(ms).value)
         \o SerializeMembers(Tail(ms), FALSE)
SerializeElems(es, first) ==
    IF es = <<>> THEN <<>>
    ELSE (IF first THEN <<>> ELSE <<",">>)
         \o serialize_value(Head(es))
         \o SerializeElems(Tail(es), FALSE)

\* The characters of a token sequence, as one string.
RECURSIVE Text(_)
Text(toks) == IF toks = <<>> THEN "" ELSE Head(toks) \o Text(Tail(toks))

\* json_parse: recursive descent over the tokens; NullPtr on a syntax error.
ParseFail == [ok |-> FALSE, node |-> NullPtr, next |-> 0]
ParseDone(n, i) == [ok |-> TRUE, node |-> n, next |-> i]
RECURSIVE ParseValue(_, _)
RECURSIVE ParseElems(_, _, _)
RECURSIVE ParseMembers(_, _, _)
ParseValue(toks, i) ==
    IF i > Len(toks) THEN ParseFail
    ELSE CASE toks[i] = "\"" ->
                IF i + 2 <= Len(toks) /\ toks[i + 2] = "\""
                THEN ParseDone(JString(toks[i + 1]), i + 3) ELSE ParseFail
           [] toks[i] = "true"  -> ParseDone(JTrue, i + 1)
           [] toks[i] = "false" -> ParseDone(JFalse, i + 1)
           [] toks[i] = "null"  -> ParseDone(JNull, i + 1)
           [] toks[i] = "["     ->
                IF i + 1 <= Len(toks) /\ toks[i + 1] = "]"
                THEN ParseDone(JArray(<<>>), i + 2)
                ELSE ParseElems(toks, i + 1, <<>>)
           [] toks[i] = "{"     ->
                IF i + 1 <= Len(toks) /\ toks[i + 1] = "}"
                THEN ParseDone(JObject(<<>>), i + 2)
                ELSE ParseMembers(toks, i + 1, <<>>)
           [] toks[i] \in NumTexts -> ParseDone(JNumber(toks[i]), i + 1)
           [] OTHER -> ParseFail
ElemsAfter(toks, r, acc) ==
    IF ~r.ok \/ r.next > Len(toks) THEN ParseFail
    ELSE IF toks[r.next] = "," THEN ParseElems(toks, r.next + 1, Append(acc, r.node))
    ELSE IF toks[r.next] = "]" THEN ParseDone(JArray(Append(acc, r.node)), r.next + 1)
    ELSE ParseFail
ParseElems(toks, i, acc) == ElemsAfter(toks, ParseValue(toks, i), acc)
MembersAfter(toks, name, r, acc) ==
    IF ~r.ok \/ r.next > Len(toks) THEN ParseFail
    ELSE IF toks[r.next] = ","
    THEN ParseMembers(toks, r.next + 1, Append(acc, Member(name, r.node)))
    ELSE IF toks[r.next] = "}"
    THEN ParseDone(JObject(Append(acc, Member(name, r.node))), r.next + 1)
    ELSE ParseFail
ParseMembers(toks, i, acc) ==
    IF i + 3 > Len(toks) \/ toks[i] # "\"" \/ toks[i + 2] # "\"" \/ toks[i + 3] # ":"
    THEN ParseFail
    ELSE MembersAfter(toks, toks[i + 1], ParseValue(toks, i + 4), acc)
Complete(toks, r) == IF r.ok /\ r.next = Len(toks) + 1 THEN r.node ELSE NullPtr
json_parse(toks) == Complete(toks, ParseValue(toks, 1))

(* ------------------------ op::ReadFeatureCollection -------------------- *)
Q == "\""
NoTypeMsg == "geoson::ReadFeatureCollection(): top-level object has no string 'type' field"
WrapFeature(j) ==
    <<"{", Q, "type", Q, ":", Q, "FeatureCollection", Q, ",", Q, "features", Q, ":", "[">>
    \o serialize_value(j) \o <<"]", "}">>
WrapGeometry(j) ==
    <<"{", Q, "type", Q, ":", Q, "FeatureCollection", Q, ",", Q, "features", Q, ":", "[",
      "{", Q, "type", Q, ":", Q, "Feature", Q, ",", Q, "geometry", Q, ":">>
    \o serialize_value(j)
    \o <<",", Q, "properties", Q, ":", "{", "}", "}", "]", "}">>

WrapByType(j, type) ==
    IF type = "FeatureCollection" THEN Ok(j)
    ELSE IF type = "Feature" THEN Ok(json_parse(WrapFeature(j)))
    ELSE Ok(json_parse(WrapGeometry(j)))
NormalizeRoot(j, obj, type_elem) ==
    IF obj.t = "nullptr" THEN Throw(NoTypeMsg)
    ELSE IF IsNullElem(type_elem) \/ type_elem.value.t # "string" THEN Throw(NoTypeMsg)
    ELSE WrapByType(j, get_string(type_elem.value))
OpReadFeatureCollection(f) ==
    IF ~f.readable THEN Throw("geoson::ReadFeatureCollection(): cannot open")
    ELSE IF f.root.t = "nullptr"
    THEN Throw("geoson::ReadFeatureCollection(): failed to parse JSON")
    ELSE NormalizeRoot(f.root, get_object(f.root), find_element(get_object(f.root), "type"))

(* ----------------------------- properties ------------------------------ *)
EmptyMap == [k \in {} |-> ""]
FlattenValue(val) ==
    IF val.t = "string" THEN get_string(val) ELSE Text(serialize_value(val))
\* m[key] = ... over the members in order: the last member of a key wins.
PropertyMap(ms) ==
    [k \in {ms[i].name : i \in 1..Len(ms)} |->
        FlattenValue(ms[Max({i \in 1..Len(ms) : ms[i].name = k})].value)]
parseProperties(props) ==
    IF props.t = "nullptr" THEN EmptyMap ELSE PropertyMap(props.v)

(* ------------------------------ geometry ------------------------------- *)
Point(x, y, z) == [x |-> x, y |-> y, z |-> z]
PointG(p) == [kind |-> "Point", pts |-> <<p>>]
LineG(a, b) == [kind |-> "Line", pts |-> <<a, b>>]
PathG(ps) == [kind |-> "Path", pts |-> ps]
PolygonG(ps) == [kind |-> "Polygon", pts |-> ps]
\* An element of parseGeometry's vector; src is a history field, read by no
\* operation: the position of the element's coordinates below the node parsed.
Out(g, path) == [geometry |-> g, src |-> path]

\* concord's WGS::toENU, an external transform, as the tangent plane at the
\* datum: east from longitude, north from latitude, up from altitude.
toENU(wgs, datum) ==
    [x |-> wgs.lon - datum.lon, y |-> wgs.lat - datum.lat, z |-> wgs.alt - datum.alt]

LocalPoint(x, y, z, datum, crs) ==
    IF crs = "ENU" THEN Ok(Point(x, y, z))
    ELSE Ok(toENU([lat |-> y, lon |-> x, alt |-> z], datum))
\* A variant that reads absent coordinates as 0 where parsePoint throws.
parsePointPadded(coords, datum, crs) ==
    LocalPoint(IF coords.t # "nullptr" /\ Len(coords.v) >= 1 THEN get_number(coords.v[1]) ELSE 0,
               IF coords.t # "nullptr" /\ Len(coords.v) >= 2 THEN get_number(coords.v[2]) ELSE 0,
               IF coords.t # "nullptr" /\ Len(coords.v) >= 3 THEN get_number(coords.v[3]) ELSE 0,
               datum, crs)
parsePoint(coords, datum, crs) ==
    IF coords.t = "nullptr" \/ Len(coords.v) < 2
    THEN Throw("Invalid point coordinates")
    ELSE LocalPoint(get_number(coords.v[1]), get_number(coords.v[2]),
                    IF Len(coords.v) >= 3 THEN get_number(coords.v[3]) ELSE 0,
                    datum, crs)

\* The results of a loop's iterations, in order: the first exception leaves
\* the loop, otherwise each iteration's elements are appended.
FirstThrow(rs, bad) ==
    IF bad # {} THEN Throw(rs[Min(bad)].err)
    ELSE Ok(Flat([i \in 1..Len(rs) |-> rs[i].val]))
Gather(rs) == FirstThrow(rs, {i \in 1..Len(rs) : ~rs[i].ok})
Single(r) == IF r.ok THEN Ok(<<r.val>>) ELSE r

\* for (elem ...) { pt_arr = get_array(elem->value); if (pt_arr) pts.push_back(parsePoint(...)); }
ParsePoints(elems, datum, crs) ==
    Gather([i \in 1..Len(elems) |->
        IF get_array(elems[i]).t # "nullptr"
        THEN Single(parsePoint(get_array(elems[i]), datum, crs))
        ELSE Ok(<<>>)])

\* A variant that makes a Line of the first two of two or more points.
LineOrPathFromTwoUp(r) ==
    IF ~r.ok THEN r
    ELSE IF Len(r.val) >= 2 THEN Ok(LineG(r.val[1], r.val[2]))
    ELSE Ok(PathG(r.val))
LineOrPath(r) ==
    IF ~r.ok THEN r
    ELSE IF Len(r.val) = 2 THEN Ok(LineG(r.val[1], r.val[2]))
    ELSE Ok(PathG(r.val))
parseLineString(coords, datum, crs) ==
    IF coords.t = "nullptr" THEN Ok(PathG(<<>>))
    ELSE LineOrPath(ParsePoints(coords.v, datum, crs))

AsPolygon(r) == IF ~r.ok THEN r ELSE Ok(PolygonG(r.val))
FirstRing(ring_arr, datum, crs) ==
    IF ring_arr.t = "nullptr" THEN Ok(PolygonG(<<>>))
    ELSE AsPolygon(ParsePoints(ring_arr.v, datum, crs))
\* A variant that reads the points of every ring.
parsePolygonAllRings(coords, datum, crs) ==
    IF coords.t = "nullptr" \/ coords.v = <<>> THEN Ok(PolygonG(<<>>))
    ELSE AsPolygon(Gather([k \in 1..Len(coords.v) |->
            IF get_array(coords.v[k]).t # "nullptr"
            THEN ParsePoints(get_array(coords.v[k]).v, datum, crs)
            ELSE Ok(<<>>)]))
parsePolygon(coords, datum, crs) ==
    IF coords.t = "nullptr" \/ coords.v = <<>> THEN Ok(PolygonG(<<>>))
    ELSE FirstRing(get_array(coords.v[1]), datum, crs)

\* out.emplace_back(r) of a geometry found at `path`, and out.insert of the
\* geometries of the k-th member of a collection.
One(r, path) == IF r.ok THEN Ok(<<Out(r.val, path)>>) ELSE r
Below(k, r) ==
    IF r.ok THEN Ok([i \in 1..Len(r.val) |-> Out(r.val[i].geometry, <<k>> \o r.val[i].src)])
    ELSE r
AsPoint(r) == IF r.ok THEN Ok(PointG(r.val)) ELSE r
ArrayAt(elem) == IF IsNullElem(elem) THEN NullPtr ELSE get_array(elem.value)

RECURSIVE parseGeometry(_, _, _)
ParseCollection(geoms_arr, datum, crs) ==
    IF geoms_arr.t = "nullptr" THEN Ok(<<>>)
    ELSE Gather([k \in 1..Len(geoms_arr.v) |->
            IF get_object(geoms_arr.v[k]).t # "nullptr"
            THEN Below(k, parseGeometry(get_object(geoms_arr.v[k]), datum, crs))
            ELSE Ok(<<>>)])
ParseKind(geom, type, coords, datum, crs) ==
    CASE type = "Point" ->
           IF coords.t # "nullptr"
           THEN One(AsPoint(parsePoint(coords, datum, crs)), <<>>)
           ELSE Ok(<<>>)
      [] type = "LineString" ->
           IF coords.t # "nullptr"
           THEN One(parseLineString(coords, datum, crs), <<>>)
           ELSE Ok(<<>>)
      [] type = "Polygon" ->
           IF coords.t # "nullptr"
           THEN One(parsePolygon(coords, datum, crs), <<>>)
           ELSE Ok(<<>>)
      [] type = "MultiPoint" ->
           IF coords.t # "nullptr"
           THEN Gather([k \in 1..Len(coords.v) |->
                   IF get_array(coords.v[k]).t # "nullptr"
                   THEN One(AsPoint(parsePoint(get_array(coords.v[k]), datum, crs)), <<k>>)
                   ELSE Ok(<<>>)])
           ELSE Ok(<<>>)
      [] type = "MultiLineString" ->
           IF coords.t # "nullptr"
           THEN Gather([k \in 1..Len(coords.v) |->
                   IF get_array(coords.v[k]).t # "nullptr"
                   THEN One(parseLineString(get_array(coords.v[k]), datum, crs), <<k>>)
                   ELSE Ok(<<>>)])
           ELSE Ok(<<>>)
      [] type = "MultiPolygon" ->
           IF coords.t # "nullptr"
           THEN Gather([k \in 1..Len(coords.v) |->
                   IF get_array(coords.v[k]).t # "nullptr"
                   THEN One(parsePolygon(get_array(coords.v[k]), datum, crs), <<k>>)
                   ELSE Ok(<<>>)])
           ELSE Ok(<<>>)
      [] type = "GeometryCollection" ->
           ParseCollection(ArrayAt(find_element(geom, "geometries")), datum, crs)
      [] OTHER -> Ok(<<>>)
\* A variant that rejects a geometry node without a type.
ParseTypedStrict(geom, type_elem, coords, datum, crs) ==
    IF IsNullElem(type_elem) THEN Throw("geometry missing 'type'")
    ELSE ParseKind(geom, get_string(type_elem.value), coords, datum, crs)
ParseTyped(geom, type_elem, coords, datum, crs) ==
    IF IsNullElem(type_elem) THEN Ok(<<>>)
    ELSE ParseKind(geom, get_string(type_elem.value), coords, datum, crs)
parseGeometry(geom, datum, crs) ==
    IF geom.t = "nullptr" THEN Ok(<<>>)
    ELSE ParseTyped(geom, find_element(geom, "type"),
                    ArrayAt(find_element(geom, "coordinates")), datum, crs)

parseCRS(s) ==
    IF s \in {"EPSG:4326", "WGS84", "WGS"} THEN Ok("WGS")
    ELSE IF s \in {"ENU", "ECEF"} THEN Ok("ENU")
    ELSE Throw("Unknown CRS string: " \o s)

(* -------------------------- ReadFeatureCollection ---------------------- *)
Datum(lat, lon, alt) == [lat |-> lat, lon |-> lon, alt |-> alt]
Euler(roll, pitch, yaw) == [roll |-> roll, pitch |-> pitch, yaw |-> yaw]
Feature(g, props, path) == [geometry |-> g, properties |-> props, src |-> path]
\* A default-constructed FeatureCollection.
EmptyFC ==
    [datum |-> Datum(0, 0, 0), heading |-> Euler(0, 0, 0),
     global_properties |-> EmptyMap, features |-> <<>>]
NoneReturned == [some |-> FALSE, fc |-> EmptyFC]

\* From the top-level `properties` lookup to the end of the global-properties loop.
IsReserved(m) == m.name \in {"crs", "datum", "heading"}
RECURSIVE OtherMembers(_)
OtherMembers(ms) ==
    IF ms = <<>> THEN <<>>
    ELSE (IF IsReserved(Head(ms)) THEN <<>> ELSE <<Head(ms)>>) \o OtherMembers(Tail(ms))
BuildMetadata(c, d, yaw, others) ==
    IF ~c.ok THEN c
    ELSE Ok([crs |-> c.val,
             fc |-> [datum |-> d, heading |-> Euler(0, 0, yaw),
                     global_properties |-> PropertyMap(others), features |-> <<>>]])
\* A variant that reads a missing crs as ENU.
CheckMetadataDefaultCrs(P, crs_elem, datum_arr, heading_elem) ==
    IF datum_arr.t = "nullptr" \/ Len(datum_arr.v) < 3
    THEN Throw("'properties' missing array 'datum' of >=3 numbers")
    ELSE IF IsNullElem(heading_elem) \/ heading_elem.value.t # "number"
    THEN Throw("'properties' missing numeric 'heading'")
    ELSE BuildMetadata(IF IsNullElem(crs_elem) \/ crs_elem.value.t # "string"
                       THEN Ok("ENU") ELSE parseCRS(get_string(crs_elem.value)),
                       Datum(get_number(datum_arr.v[1]), get_number(datum_arr.v[2]),
                             get_number(datum_arr.v[3])),
                       get_number(heading_elem.value),
                       OtherMembers(P.v))
CheckMetadata(P, crs_elem, datum_arr, heading_elem) ==
    IF IsNullElem(crs_elem) \/ crs_elem.value.t # "string"
    THEN Throw("'properties' missing string 'crs'")
    ELSE IF datum_arr.t = "nullptr" \/ Len(datum_arr.v) < 3
    THEN Throw("'properties' missing array 'datum' of >=3 numbers")
    ELSE IF IsNullElem(heading_elem) \/ heading_elem.value.t # "number"
    THEN Throw("'properties' missing numeric 'heading'")
    ELSE BuildMetadata(parseCRS(get_string(crs_elem.value)),
                       Datum(get_number(datum_arr.v[1]), get_number(datum_arr.v[2]),
                             get_number(datum_arr.v[3])),
                       get_number(heading_elem.value),
                       OtherMembers(P.v))
MetadataIn(P) ==
    CheckMetadata(P, find_element(P, "crs"), ArrayAt(find_element(P, "datum")),
                  find_element(P, "heading"))
MetadataAt(props_elem) ==
    IF IsNullElem(props_elem) \/ props_elem.value.t # "object"
    THEN Throw("missing top-level 'properties'")
    ELSE MetadataIn(get_object(props_elem.value))
ResolveMetadata(j) == MetadataAt(find_element(get_object(j), "properties"))

\* The `features` array of the document, NullPtr if there is none.
FeaturesArr(j) == ArrayAt(find_element(get_object(j), "features"))

\* One iteration of the features loop, on the k-th entry: the Features it
\* appends to fc.features, or the exception that leaves the loop.
PropsAt(feat_props_elem) ==
    IF ~IsNullElem(feat_props_elem) /\ feat_props_elem.value.t = "object"
    THEN parseProperties(get_object(feat_props_elem.value))
    ELSE EmptyMap
\* A variant that makes a Feature of the first geometry only.
EmitFirst(geoms, props_map, k) ==
    IF ~geoms.ok THEN geoms
    ELSE Ok([i \in 1..Min({1, Len(geoms.val)}) |->
                Feature(geoms.val[i].geometry, props_map, <<k>> \o geoms.val[i].src)])
Emit(geoms, props_map, k) ==
    IF ~geoms.ok THEN geoms
    ELSE Ok([i \in 1..Len(geoms.val) |->
                Feature(geoms.val[i].geometry, props_map, <<k>> \o geoms.val[i].src)])
FeatureOf(feat_obj, geom_elem, k, d, crs) ==
    IF feat_obj.t = "nullptr" THEN Ok(<<>>)
    ELSE IF IsNullElem(geom_elem) \/ geom_elem.value.t = "null" THEN Ok(<<>>)
    ELSE Emit(parseGeometry(get_object(geom_elem.value), d, crs),
              PropsAt(find_element(feat_obj, "properties")), k)
FeatureStep(entry, k, d, crs) ==
    FeatureOf(get_object(entry), find_element(get_object(entry), "geometry"), k, d, crs)

\* The features loop as a whole.
ParseFeatures(arr, d, crs) ==
    IF arr.t = "nullptr" THEN Ok(<<>>)
    ELSE Gather([k \in 1..Len(arr.v) |-> FeatureStep(arr.v[k], k, d, crs)])

\* The whole call as a function of the file: the FeatureCollection returned,
\* or the exception thrown.
Assemble(m, fs) == IF ~fs.ok THEN fs ELSE Ok([m.val.fc EXCEPT !.features = fs.val])
WithMetadata(j, m) ==
    IF ~m.ok THEN m
    ELSE Assemble(m, ParseFeatures(FeaturesArr(j), m.val.fc.datum, m.val.crs))
Normalized(j) == IF ~j.ok THEN j ELSE WithMetadata(j.val, ResolveMetadata(j.val))
ReadFeatureCollection(f) == Normalized(OpReadFeatureCollection(f))

(* ------------------------------ actions -------------------------------- *)
\* An exception leaves ReadFeatureCollection: its locals are destroyed and
\* nothing is returned.
Raise(msg) ==
    /\ pc' = "failed"
    /\ err' = msg
    /\ fc' = EmptyFC
    /\ feat' = 0
    /\ UNCHANGED <<file, fc_json, crsVal, ret, gIn, gAlt, gOut, gAltOut>>

NormalizeTo(r) ==
    IF r.ok
    THEN /\ fc_json' = r.val
         /\ pc' = "metadata"
         /\ UNCHANGED <<file, crsVal, fc, feat, err, ret, gIn, gAlt, gOut, gAltOut>>
    ELSE Raise(r.err)
Normalize ==
    /\ pc = "start"
    /\ NormalizeTo(OpReadFeatureCollection(file))

MetadataTo(r) ==
    IF r.ok
    THEN /\ crsVal' = r.val.crs
         /\ fc' = r.val.fc
         /\ feat' = 1
         /\ pc' = "features"
         /\ UNCHANGED <<file, fc_json, err, ret, gIn, gAlt, gOut, gAltOut>>
    ELSE Raise(r.err)
ReadMetadata ==
    /\ pc = "metadata"
    /\ MetadataTo(ResolveMetadata(fc_json))

\* A variant that puts an entry's features in front of the earlier ones.
FeatureToFront(r) ==
    IF r.ok
    THEN /\ fc' = [fc EXCEPT !.features = r.val \o @]
         /\ feat' = feat + 1
         /\ UNCHANGED <<file, pc, fc_json, crsVal, err, ret, gIn, gAlt, gOut, gAltOut>>
    ELSE Raise(r.err)
FeatureTo(r) ==
    IF r.ok
    THEN /\ fc' = [fc EXCEPT !.features = @ \o r.val]
         /\ feat' = feat + 1
         /\ UNCHANGED <<file, pc, fc_json, crsVal, err, ret, gIn, gAlt, gOut, gAltOut>>
    ELSE Raise(r.err)
FeaturesLeft(arr) == arr.t # "nullptr" /\ feat <= Len(arr.v)
ParseFeature ==
    /\ pc = "features"
    /\ FeaturesLeft(FeaturesArr(fc_json))
    /\ FeatureTo(FeatureStep(FeaturesArr(fc_json).v[feat], feat, fc.datum, crsVal))

Return ==
    /\ pc = "features"
    /\ ~FeaturesLeft(FeaturesArr(fc_json))
    /\ ret' = [some |-> TRUE, fc |-> fc]
    /\ pc' = "done"
    /\ UNCHANGED <<file, fc_json, crsVal, fc, feat, err, gIn, gAlt, gOut, gAltOut>>

Next == Normalize \/ ReadMetadata \/ ParseFeature \/ Return

(* ------------------------------ inputs --------------------------------- *)
Num(n) == JNumber(ToString(n))
Str(x) == JString(x)
\* Coordinate arrays: two and three numbers, too short, empty, and one whose
\* first entry is no number; NonArr is an entry that is no array at all.
A2 == JArray(<<Num(1), Num(2)>>)
A3 == JArray(<<Num(2), Num(3), Num(4)>>)
A1 == JArray(<<Num(5)>>)
A0 == JArray(<<>>)
AS == JArray(<<Str("a"), Num(6)>>)
NonArr == Num(7)
Ring3 == JArray(<<A2, A3, A2>>)
Ring2 == JArray(<<A3, AS>>)
RingBad == JArray(<<A2, A1>>)

Geo(type, coords) ==
    JObject(<<Member("type", Str(type)), Member("coordinates", coords)>>)
Coll(geoms) ==
    JObject(<<Member("type", Str("GeometryCollection")), Member("geometries", JArray(geoms))>>)
Circle == Geo("Circle", A1)
NoTypeGeom == JObject(<<Member("coordinates", A2)>>)
MP3 == Geo("MultiPoint", JArray(<<A2, NonArr, A3>>))
Line2 == Geo("LineString", JArray(<<A2, A3>>))

GeomSamples ==
    << Geo("Point", A2),
       Geo("Point", A3),
       Geo("Point", AS),
       Geo("Point", A1),
       JObject(<<Member("type", Str("Point"))>>),
       Geo("Point", NonArr),
       Line2,
       Geo("LineString", JArray(<<A2, A3, AS>>)),
       Geo("LineString", JArray(<<A2, NonArr, A3>>)),
       Geo("LineString", JArray(<<A3>>)),
       Geo("LineString", JArray(<<A3, A1>>)),
       JObject(<<Member("type", Str("LineString"))>>),
       Geo("Polygon", JArray(<<Ring3>>)),
       Geo("Polygon", JArray(<<Ring3, RingBad>>)),
       Geo("Polygon", JArray(<<RingBad, Ring3>>)),
       MP3,
       Geo("MultiPoint", JArray(<<A3, A0>>)),
       Geo("MultiLineString",
           JArray(<<JArray(<<A2, A3>>), JArray(<<A3>>), NonArr, JArray(<<A3, A2, AS>>)>>)),
       Geo("MultiPolygon",
           JArray(<<JArray(<<Ring3, RingBad>>), JArray(<<>>), JArray(<<Ring2>>)>>)),
       Circle,
       NoTypeGeom,
       JObject(<<Member("type", Num(5)), Member("coordinates", A2)>>),
       Coll(<<Geo("Point", A2), MP3>>),
       Coll(<<MP3, Coll(<<Geo("Point", A3), Circle, Line2>>), NonArr, Geo("Point", A2)>>),
       Coll(<<Geo("Point", A2), Coll(<<Line2, Geo("Point", A1)>>)>>),
       Coll(<<Circle, Geo("Point", A2), NoTypeGeom>>),
       JObject(<<Member("type", Str("GeometryCollection"))>>) >>

FeatureProps ==
    JObject(<<Member("a", Str("x")), Member("b", Num(3)), Member("c", JTrue),
              Member("d", JArray(<<JNull, JObject(<<Member("e", JFalse)>>)>>)),
              Member("a", Str("y"))>>)
Feat(g) ==
    JObject(<<Member("type", Str("Feature")), Member("geometry", g),
              Member("properties", FeatureProps)>>)
\* The entries a `features` array is drawn from: one Feature per sample
\* geometry, then a Feature with no geometry, one with a null geometry, one
\* whose geometry is no object, one without properties and an entry that is
\* no object.
EntrySamples ==
    [i \in 1..Len(GeomSamples) |-> Feat(GeomSamples[i])]
    \o << JObject(<<Member("type", Str("Feature")), Member("properties", FeatureProps)>>),
          JObject(<<Member("type", Str("Feature")), Member("geometry", JNull)>>),
          JObject(<<Member("type", Str("Feature")), Member("geometry", Str("g"))>>),
          JObject(<<Member("geometry", Geo("Point", A3))>>),
          NonArr >>
FewEntries == <<Feat(Geo("Point", A2)), Feat(Geo("Point", A1)), EntrySamples[Len(GeomSamples) + 2]>>

Props(crs, datum, heading, more) ==
    JObject(crs \o datum \o heading \o more)
Crs(x) == <<Member("crs", x)>>
Dat(x) == <<Member("datum", x)>>
Hdg(x) == <<Member("heading", x)>>
Datum123 == Dat(JArray(<<Num(1), Num(2), Num(3)>>))
Extra ==
    <<Member("name", Str("farm")), Member("n", Num(3)), Member("flag", JTrue),
      Member("tags", JArray(<<Str("a"), JNull>>))>>
\* The values of the top-level `properties` member; NullPtr: no such member.
MetaSamples ==
    << Props(Crs(Str("ENU")), Datum123, Hdg(Num(4)), <<>>),
       Props(Crs(Str("WGS84")), Datum123, Hdg(Num(0)), Extra),
       Props(Crs(Str("EPSG:4326")), Dat(JArray(<<Num(0), Num(0), Num(0), Num(9)>>)), Hdg(Num(1)), <<>>),
       Props(Crs(Str("WGS")), Datum123, Hdg(Num(2)), <<>>),
       Props(Crs(Str("ECEF")), Datum123, Hdg(Num(2)), Extra),
       NullPtr,
       Str("ENU"),
       Props(<<>>, Datum123, Hdg(Num(4)), Extra),
       Props(<<>>, <<>>, <<>>, <<>>),
       Props(<<>>, Dat(JArray(<<Num(1)>>)), Hdg(Str("n")), <<>>),
       Props(Crs(Num(5)), Datum123, Hdg(Num(4)), <<>>),
       Props(Crs(Str("UTM")), Datum123, Hdg(Num(4)), <<>>),
       Props(Crs(Str("UTM")), Datum123, <<>>, <<>>),
       Props(Crs(Str("ENU")), <<>>, Hdg(Num(4)), <<>>),
       Props(Crs(Str("ENU")), Dat(Num(3)), Hdg(Num(4)), <<>>),
       Props(Crs(Str("ENU")), Dat(JArray(<<Num(1), Num(2)>>)), Hdg(Num(4)), <<>>),
       Props(Crs(Str("ENU")), Dat(JArray(<<Str("a"), Num(1), Num(2)>>)), Hdg(Num(4)), <<>>),
       Props(Crs(Str("ENU")), Dat(JArray(<<Str("a"), Num(1), Num(2), Num(3)>>)), Hdg(Num(4)), <<>>),
       Props(Crs(Str("WGS")), Dat(JArray(<<Num(1), JNull, JTrue>>)), Hdg(Num(4)), <<>>),
       Props(Crs(Str("ENU")), Datum123, <<>>, <<>>),
       Props(Crs(Str("ENU")), Datum123, Hdg(Str("north")), <<>>) >>
ValidMeta == MetaSamples[1]

WithProps(members, meta) ==
    IF meta.t = "nullptr" THEN members ELSE members \o <<Member("properties", meta)>>
\* A FeatureCollection document; `features` is the value of its features
\* member, NullPtr for none.
Collection(type, meta, features) ==
    JObject(WithProps(type, meta)
            \o (IF features.t = "nullptr" THEN <<>> ELSE <<Member("features", features)>>))
\* A bare Feature document around geometry g, and a bare geometry document.
BareFeature(g, meta) ==
    JObject(WithProps(<<Member("type", Str("Feature")), Member("geometry", g)>>, meta))
BareGeometry(g, meta) == JObject(WithProps(g.v, meta))

FCType == <<Member("type", Str("FeatureCollection"))>>
\* Documents with no features array, with no usable type, that are no object,
\* no JSON, or cannot be opened.
OddTypes == <<FCType, <<>>, <<Member("type", Num(1))>> >>
OddFeatures == <<NullPtr, Str("none")>>
Readable(root) == [readable |-> TRUE, root |-> root]
OddFiles ==
    <<Readable(JArray(<<Feat(Geo("Point", A2))>>)), Readable(NullPtr),
      [readable |-> FALSE, root |-> NullPtr]>>

\* The documents: every metadata sample around a few features, every sample
\* geometry as a bare Feature and as a bare geometry under every metadata
\* sample, and valid metadata around every sequence of sample entries.
InitFile ==
    \/ \E m \in 1..Len(MetaSamples), n \in 0..MaxFeatures :
       \E es \in [1..n -> 1..Len(FewEntries)] :
           file = Readable(Collection(FCType, MetaSamples[m],
                                      JArray([i \in 1..n |-> FewEntries[es[i]]])))
    \/ \E m \in 1..Len(MetaSamples), g \in 1..Len(GeomSamples), bare \in BOOLEAN :
           file = Readable(IF bare THEN BareGeometry(GeomSamples[g], MetaSamples[m])
                           ELSE BareFeature(GeomSamples[g], MetaSamples[m]))
    \/ \E n \in 0..MaxFeatures : \E es \in [1..n -> 1..Len(EntrySamples)] :
           file = Readable(Collection(FCType, ValidMeta,
                                      JArray([i \in 1..n |-> EntrySamples[es[i]]])))
    \/ \E m \in 1..Len(MetaSamples), features \in 1..2, type \in 1..3 :
           file = Readable(Collection(OddTypes[type], MetaSamples[m], OddFeatures[features]))
    \/ \E i \in 1..Len(OddFiles) : file = OddFiles[i]

InitCall ==
    /\ pc = "start"
    /\ fc_json = NullPtr
    /\ crsVal = "ENU"
    /\ fc = EmptyFC
    /\ feat = 0
    /\ err = ""
    /\ ret = NoneReturned
    /\ gIn = NullPtr
    /\ gAlt = NullPtr
    /\ gOut = Ok(<<>>)
    /\ gAltOut = Ok(<<>>)

Init == InitFile /\ InitCall

Spec == Init /\ [][Next]_vars

Terminated == pc \in {"done", "failed"}
\* The stepwise call ends as the function of the file says.
EndsAs(r) ==
    /\ (pc = "done") = r.ok
    /\ pc = "done" => ret.some /\ ret.fc = r.val
    /\ pc = "failed" => ~ret.some /\ err = r.err
StepwiseAgrees == Terminated => EndsAs(ReadFeatureCollection(file))

(* ------------------- parseGeometry called on its own -------------------- *)
\* Coordinate lists over these entries, rings that may follow a first ring,
\* and the members of a MultiLineString and of a MultiPolygon.
PointEntries == <<A2, A3, A1, NonArr>>
CoordList(n, ix) == JArray([i \in 1..n |-> PointEntries[ix[i]]])
LaterRings == <<JArray(<<>>), Ring3, RingBad, JArray(<<A1>>), NonArr>>
LineParts ==
    <<JArray(<<>>), JArray(<<A3>>), JArray(<<A2, A3>>), JArray(<<A2, NonArr, A3>>),
      JArray(<<A2, A3, A2>>), JArray(<<A3, A1>>), NonArr>>
PolyParts ==
    <<JArray(<<>>), JArray(<<Ring3>>), JArray(<<Ring3, RingBad>>), JArray(<<Ring2, NonArr, Ring3>>),
      JArray(<<RingBad, Ring3>>), JArray(<<NonArr, RingBad>>), NonArr>>
FirstOnly(arr) ==
    IF arr.t = "array" /\ Len(arr.v) > 1 THEN JArray(<<arr.v[1]>>) ELSE arr

InitGeometry ==
    \/ \E n \in 0..MaxPts : \E ix \in [1..n -> 1..Len(PointEntries)] :
           /\ gIn = Geo("LineString", CoordList(n, ix))
           /\ gAlt = gIn
    \/ \E n \in 0..MaxParts : \E px \in [1..n -> 1..Len(LineParts)] :
           /\ gIn = Geo("MultiLineString", JArray([i \in 1..n |-> LineParts[px[i]]]))
           /\ gAlt = gIn
    \/ \E n \in 0..MaxPts, r \in 0..(MaxRings - 1) :
       \E ix \in [1..n -> 1..Len(PointEntries)], lx \in [1..r -> 1..Len(LaterRings)] :
           /\ gIn = Geo("Polygon", JArray(<<CoordList(n, ix)>> \o [i \in 1..r |-> LaterRings[lx[i]]]))
           /\ gAlt = Geo("Polygon", JArray(<<CoordList(n, ix)>>))
    \/ \E r \in 0..MaxRings : \E lx \in [1..r -> 1..Len(LaterRings)] :
           /\ gIn = Geo("Polygon", JArray([i \in 1..r |-> LaterRings[lx[i]]]))
           /\ gAlt = Geo("Polygon", FirstOnly(JArray([i \in 1..r |-> LaterRings[lx[i]]])))
    \/ \E n \in 0..MaxParts : \E px \in [1..n -> 1..Len(PolyParts)] :
           /\ gIn = Geo("MultiPolygon", JArray([i \in 1..n |-> PolyParts[px[i]]]))
           /\ gAlt = Geo("MultiPolygon", JArray([i \in 1..n |-> FirstOnly(PolyParts[px[i]])]))

InitGeom ==
    /\ InitGeometry
    /\ crsVal \in {"ENU", "WGS"}
    /\ fc = [EmptyFC EXCEPT !.datum = Datum(1, 2, 3)]
    /\ pc = "geometry"
    /\ file = Readable(NullPtr)
    /\ fc_json = NullPtr
    /\ feat = 0
    /\ err = ""
    /\ ret = NoneReturned
    /\ gOut = Ok(<<>>)
    /\ gAltOut = Ok(<<>>)

ParseGeometryCall ==
    /\ pc = "geometry"
    /\ gOut' = parseGeometry(gIn, fc.datum, crsVal)
    /\ gAltOut' = parseGeometry(gAlt, fc.datum, crsVal)
    /\ pc' = "parsed"
    /\ UNCHANGED <<file, fc_json, crsVal, fc, feat, err, ret, gIn, gAlt>>

NextGeom == ParseGeometryCall

SpecGeom == InitGeom /\ [][NextGeom]_vars

(* ======================= properties of the parser ====================== *)
\* Reading the document itself.
Has(obj, key) == ~IsNullElem(find_element(get_object(obj), key))
Field(obj, key) == find_element(get_object(obj), key).value
TypeName(g) == get_string(Field(g, "type"))
IsArr(x) == x.t = "array"
Entries(doc) == IF IsArr(Field(doc, "features")) THEN Field(doc, "features").v ELSE <<>>
SingleKinds == {"Point", "LineString", "Polygon"}
MultiKinds == {"MultiPoint", "MultiLineString", "MultiPolygon"}
KnownKinds == SingleKinds \cup MultiKinds \cup {"GeometryCollection"}
\* An entry the features loop does not skip.
NotSkipped(e) == e.t = "object" /\ Has(e, "geometry") /\ Field(e, "geometry").t # "null"
ArrayIndexes(arr) == {i \in 1..Len(arr.v) : IsArr(arr.v[i])}
SameResult(a, b) ==
    /\ a.ok = b.ok
    /\ a.ok => a.val = b.val
    /\ ~a.ok => a.err = b.err
RECURSIVE LexLess(_, _)
LexLess(p, q) ==
    IF p = <<>> THEN q # <<>>
    ELSE IF q = <<>> THEN FALSE
    ELSE \/ Head(p) < Head(q)
         \/ Head(p) = Head(q) /\ LexLess(Tail(p), Tail(q))

\* The positions, below geometry node g, of the component geometries of g:
\* <<>> for a single geometry, <<k>> for the k-th coordinate sub-array of a
\* Multi* geometry, <<k>> \o p for position p of the k-th member of a collection.
RECURSIVE LeafPaths(_)
LeafPaths(g) ==
    IF g.t # "object" THEN {}
    ELSE CASE TypeName(g) \in SingleKinds ->
                IF IsArr(Field(g, "coordinates")) THEN {<<>>} ELSE {}
           [] TypeName(g) \in MultiKinds ->
                IF IsArr(Field(g, "coordinates"))
                THEN {<<k>> : k \in ArrayIndexes(Field(g, "coordinates"))} ELSE {}
           [] TypeName(g) = "GeometryCollection" ->
                IF IsArr(Field(g, "geometries"))
                THEN UNION {{<<k>> \o q : q \in LeafPaths(Field(g, "geometries").v[k])} :
                            k \in 1..Len(Field(g, "geometries").v)}
                ELSE {}
           [] OTHER -> {}
\* The positions of the component geometries of the first n entries.
DocPaths(doc, n) ==
    UNION {{<<k>> \o q : q \in LeafPaths(Field(Entries(doc)[k], "geometry"))} :
           k \in {i \in 1..n : i <= Len(Entries(doc)) /\ NotSkipped(Entries(doc)[i])}}

\* The geometry the document describes at position p below node g.
RECURSIVE LeafAt(_, _, _, _)
LeafAt(g, p, d, crs) ==
    CASE TypeName(g) = "Point" -> AsPoint(parsePoint(Field(g, "coordinates"), d, crs))
      [] TypeName(g) = "LineString" -> parseLineString(Field(g, "coordinates"), d, crs)
      [] TypeName(g) = "Polygon" -> parsePolygon(Field(g, "coordinates"), d, crs)
      [] TypeName(g) = "MultiPoint" ->
           AsPoint(parsePoint(Field(g, "coordinates").v[p[1]], d, crs))
      [] TypeName(g) = "MultiLineString" ->
           parseLineString(Field(g, "coordinates").v[p[1]], d, crs)
      [] TypeName(g) = "MultiPolygon" ->
           parsePolygon(Field(g, "coordinates").v[p[1]], d, crs)
      [] OTHER -> LeafAt(Field(g, "geometries").v[p[1]], Tail(p), d, crs)

(* C1: when the parse succeeds, the number of features equals the sum over
   the entries that are not skipped of the number of geometries parseGeometry
   returns for the entry's geometry, and each such entry contributes one
   feature per component geometry of its geometry. *)
EntryCount(e, d, crs) ==
    IF NotSkipped(e) THEN Len(parseGeometry(get_object(Field(e, "geometry")), d, crs).val)
    ELSE 0
FromEntry(fs, k) == {i \in 1..Len(fs) : fs[i].src[1] = k}
C1_FeatureCount ==
    pc = "done" =>
        /\ Len(ret.fc.features) =
               SumSeq([k \in 1..Len(Entries(fc_json)) |->
                          EntryCount(Entries(fc_json)[k], ret.fc.datum, crsVal)])
        /\ \A k \in 1..Len(Entries(fc_json)) :
               Cardinality(FromEntry(ret.fc.features, k)) =
                   IF NotSkipped(Entries(fc_json)[k])
                   THEN Cardinality(LeafPaths(Field(Entries(fc_json)[k], "geometry")))
                   ELSE 0
C1_Witness ==
    /\ pc = "done"
    /\ Len(Entries(fc_json)) = 2
    /\ ~NotSkipped(Entries(fc_json)[1])
    /\ TypeName(Field(Entries(fc_json)[2], "geometry")) = "GeometryCollection"
    /\ Len(ret.fc.features) = 5

(* C2: parseLineString, on a LineString and on each sub-array of a
   MultiLineString, returns a Line exactly when the list holds two coordinate
   arrays, and otherwise a Path of the points in input order, whose length is
   never 2. *)
LineList(g, p) ==
    IF p = <<>> THEN Field(g, "coordinates") ELSE Field(g, "coordinates").v[p[1]]
PointsOf(list, d, crs) ==
    [i \in 1..Cardinality(ArrayIndexes(list)) |->
        parsePoint(list.v[CHOOSE k \in ArrayIndexes(list) :
                              Cardinality({j \in ArrayIndexes(list) : j < k}) = i - 1],
                   d, crs).val]
LineRule(list, geo, d, crs) ==
    /\ geo.kind = "Line" <=> Cardinality(ArrayIndexes(list)) = 2
    /\ geo.kind \in {"Line", "Path"}
    /\ geo.kind = "Path" => Len(geo.pts) # 2
    /\ geo.pts = PointsOf(list, d, crs)
C2_LineOrPath ==
    (pc = "parsed" /\ TypeName(gIn) \in {"LineString", "MultiLineString"} /\ gOut.ok) =>
        /\ {gOut.val[i].src : i \in 1..Len(gOut.val)} = LeafPaths(gIn)
        /\ \A i \in 1..Len(gOut.val) :
               LineRule(LineList(gIn, gOut.val[i].src), gOut.val[i].geometry, fc.datum, crsVal)
C2_Witness ==
    /\ pc = "parsed"
    /\ TypeName(gIn) = "MultiLineString"
    /\ gOut.ok
    /\ Len(gOut.val) = 2
    /\ gOut.val[1].geometry.kind = "Line"
    /\ Len(LineList(gIn, gOut.val[1].src).v) = 3
    /\ gOut.val[2].geometry.kind = "Path"
    /\ Len(gOut.val[2].geometry.pts) = 3

(* C3: a parsed Polygon holds the points of ring 0 only, in order, and a
   Polygon (or MultiPolygon member) with further rings is parsed to the same
   outcome, result or failure, as the same one cut down to its first ring. *)
RingZero(g, p) ==
    IF p = <<>> THEN Field(g, "coordinates").v[1] ELSE Field(g, "coordinates").v[p[1]].v[1]
HasRingZero(g, p) ==
    IF p = <<>> THEN Len(Field(g, "coordinates").v) > 0 /\ IsArr(RingZero(g, p))
    ELSE Len(Field(g, "coordinates").v[p[1]].v) > 0 /\ IsArr(RingZero(g, p))
C3_FirstRingOnly ==
    (pc = "parsed" /\ TypeName(gIn) \in {"Polygon", "MultiPolygon"}) =>
        /\ SameResult(gOut, gAltOut)
        /\ gOut.ok =>
             \A i \in 1..Len(gOut.val) :
                 /\ gOut.val[i].geometry.kind = "Polygon"
                 /\ gOut.val[i].geometry.pts =
                        IF HasRingZero(gIn, gOut.val[i].src)
                        THEN PointsOf(RingZero(gIn, gOut.val[i].src), fc.datum, crsVal)
                        ELSE <<>>
C3_Witness ==
    /\ pc = "parsed"
    /\ TypeName(gIn) = "Polygon"
    /\ Len(Field(gIn, "coordinates").v) = 2
    /\ IsArr(Field(gIn, "coordinates").v[2])
    /\ \E i \in ArrayIndexes(Field(gIn, "coordinates").v[2]) :
           Len(Field(gIn, "coordinates").v[2].v[i].v) < 2
    /\ gOut.ok
    /\ Len(gOut.val[1].geometry.pts) = 3

(* C4: a document whose root is a bare Point geometry parses to the same
   single Point feature, geometry for geometry, as the FeatureCollection with
   one Feature around that Point and empty properties; both parses succeed. *)
Geometries(fs) == [i \in 1..Len(fs) |-> fs[i].geometry]
\* The FeatureCollection form of a bare geometry document, under the
\* document's own top-level properties.
CollectionForm(root) ==
    Collection(FCType, Field(root, "properties"),
               JArray(<<JObject(<<Member("type", Str("Feature")), Member("geometry", root),
                                  Member("properties", JObject(<<>>))>>)>>))
IsBarePoint(root) ==
    /\ root.t = "object"
    /\ Field(root, "type").t = "string"
    /\ TypeName(root) = "Point"
    /\ IsArr(Field(root, "coordinates"))
    /\ Len(Field(root, "coordinates").v) >= 2
WrappedAgrees(w) ==
    /\ pc = "done"
    /\ w.ok
    /\ Len(ret.fc.features) = 1
    /\ ret.fc.features[1].geometry.kind = "Point"
    /\ Geometries(ret.fc.features) = Geometries(w.val.features)
C4_BarePointAsCollection ==
    (Terminated /\ file.readable /\ IsBarePoint(file.root)
       /\ ReadFeatureCollection(Readable(CollectionForm(file.root))).ok) =>
        WrappedAgrees(ReadFeatureCollection(Readable(CollectionForm(file.root))))

(* C5: a document whose top-level type is a string that names neither a
   FeatureCollection, a Feature nor one of the seven geometry kinds, and that
   carries a top-level properties object with valid crs, datum and heading,
   parses successfully to a FeatureCollection with no features. *)
ValidProperties(P) ==
    /\ P.t = "object"
    /\ Field(P, "crs").t = "string"
    /\ parseCRS(get_string(Field(P, "crs"))).ok
    /\ IsArr(Field(P, "datum"))
    /\ Cardinality({i \in 1..Len(Field(P, "datum").v) : Field(P, "datum").v[i].t = "number"}) >= 3
    /\ Field(P, "heading").t = "number"
C5_UnknownTypeYieldsEmpty ==
    (Terminated /\ file.readable /\ file.root.t = "object"
       /\ Field(file.root, "type").t = "string"
       /\ TypeName(file.root) \notin KnownKinds \cup {"FeatureCollection", "Feature"}
       /\ ValidProperties(Field(file.root, "properties"))) =>
        /\ pc = "done"
        /\ ret.some
        /\ ret.fc.features = <<>>

(* C6: a document whose top-level properties object has no crs field never
   yields a FeatureCollection: the call fails whatever datum, heading and
   features hold, before any feature is parsed. *)
LacksCrs(root) ==
    /\ root.t = "object"
    /\ Field(root, "properties").t = "object"
    /\ ~Has(Field(root, "properties"), "crs")
C6_MissingCrsFails ==
    (file.readable /\ LacksCrs(file.root)) =>
        /\ pc \in {"start", "metadata", "failed"}
        /\ ~ret.some
        /\ fc.features = <<>>
        /\ pc = "failed" => err # ""
C6_Witness ==
    /\ pc = "failed"
    /\ err = "'properties' missing string 'crs'"
    /\ LacksCrs(file.root)
    /\ IsArr(Field(Field(file.root, "properties"), "datum"))
    /\ Field(Field(file.root, "properties"), "heading").t = "number"
    /\ Len(Entries(file.root)) = 2

(* C7: a document whose properties.datum is missing, is no array or holds
   fewer than three numbers fails and returns nothing, and a successful parse
   returns the first three numeric elements as latitude, longitude, altitude. *)
NumbersOf(arr) ==
    [i \in 1..Cardinality({k \in 1..Len(arr.v) : arr.v[k].t = "number"}) |->
        get_number(arr.v[CHOOSE k \in 1..Len(arr.v) :
                             /\ arr.v[k].t = "number"
                             /\ Cardinality({j \in 1..k - 1 : arr.v[j].t = "number"}) = i - 1])]
DatumOk(P) == IsArr(Field(P, "datum")) /\ Len(NumbersOf(Field(P, "datum"))) >= 3
TopProperties == Field(fc_json, "properties")
C7_DatumNeedsThreeNumbers ==
    (Terminated /\ fc_json.t = "object" /\ TopProperties.t = "object") =>
        /\ ~DatumOk(TopProperties) => pc = "failed" /\ ~ret.some
        /\ pc = "done" =>
               ret.fc.datum = Datum(NumbersOf(Field(TopProperties, "datum"))[1],
                                    NumbersOf(Field(TopProperties, "datum"))[2],
                                    NumbersOf(Field(TopProperties, "datum"))[3])

(* C8: under valid top-level properties, an entry whose geometry is missing
   or null, a geometry node whose type is missing or unrecognized, and a node
   of a coordinate-bearing type without coordinates contribute no feature and
   abort nothing: the call ends exactly as it does on the document with those
   entries and nodes removed. *)
SkipNode(g) ==
    /\ g.t = "object"
    /\ \/ ~Has(g, "type")
       \/ TypeName(g) \notin KnownKinds
       \/ TypeName(g) \in SingleKinds \cup MultiKinds /\ ~Has(g, "coordinates")
SkipEntry(e) ==
    /\ e.t = "object"
    /\ \/ ~Has(e, "geometry")
       \/ Field(e, "geometry").t = "null"
       \/ SkipNode(Field(e, "geometry"))
\* The document without its skipped entries and nodes.
RECURSIVE StripNode(_)
RECURSIVE KeptNodes(_)
StripNode(g) ==
    IF g.t = "object" /\ TypeName(g) = "GeometryCollection" /\ IsArr(Field(g, "geometries"))
    THEN JObject([i \in 1..Len(g.v) |->
                    IF g.v[i].name = "geometries"
                    THEN Member("geometries", JArray(KeptNodes(g.v[i].value.v)))
                    ELSE g.v[i]])
    ELSE g
KeptNodes(ns) ==
    IF Len(ns) = 0 THEN <<>>
    ELSE (IF SkipNode(Head(ns)) THEN <<>> ELSE <<StripNode(Head(ns))>>) \o KeptNodes(Tail(ns))
StripEntry(e) ==
    IF e.t # "object" THEN e
    ELSE JObject([i \in 1..Len(e.v) |->
                    IF e.v[i].name = "geometry"
                    THEN Member("geometry", StripNode(e.v[i].value))
                    ELSE e.v[i]])
RECURSIVE KeptEntries(_)
KeptEntries(es) ==
    IF Len(es) = 0 THEN <<>>
    ELSE (IF SkipEntry(Head(es)) THEN <<>> ELSE <<StripEntry(Head(es))>>) \o KeptEntries(Tail(es))
StripDoc(doc) ==
    JObject([i \in 1..Len(doc.v) |->
               IF doc.v[i].name = "features" /\ IsArr(doc.v[i].value)
               THEN Member("features", JArray(KeptEntries(doc.v[i].value.v)))
               ELSE doc.v[i]])
\* Position p below node g lies in or below a skipped node.
RECURSIVE ThroughSkip(_, _)
ThroughSkip(g, p) ==
    \/ SkipNode(g)
    \/ /\ g.t = "object"
       /\ TypeName(g) = "GeometryCollection"
       /\ Len(p) > 0
       /\ ThroughSkip(Field(g, "geometries").v[p[1]], Tail(p))
Shape(fs) == [i \in 1..Len(fs) |-> [geometry |-> fs[i].geometry, properties |-> fs[i].properties]]
EndsLike(r) ==
    /\ (pc = "done") = r.ok
    /\ pc = "done" => ret.some /\ Shape(ret.fc.features) = Shape(r.val.features)
    /\ pc = "failed" => ~ret.some /\ err = r.err
\* The top-level properties were accepted: the call got to the features loop,
\* or it failed with properties that pass the checks.
MetadataOk == pc \in {"features", "done"} \/ (pc = "failed" /\ ResolveMetadata(fc_json).ok)
C8_SkipsAreSilent ==
    (fc_json.t = "object" /\ MetadataOk) =>
        /\ \A k \in 1..Len(Entries(fc_json)) :
               (SkipEntry(Entries(fc_json)[k]) /\ pc # "failed" /\ k < feat) =>
                   FromEntry(fc.features, k) = {}
        /\ \A i \in 1..Len(fc.features) :
               ~ThroughSkip(Field(Entries(fc_json)[fc.features[i].src[1]], "geometry"),
                            Tail(fc.features[i].src))
        /\ Terminated =>
               EndsLike(WithMetadata(StripDoc(fc_json), ResolveMetadata(StripDoc(fc_json))))
C8_Witness ==
    /\ pc = "done"
    /\ Len(Entries(fc_json)) = 2
    /\ SkipEntry(Entries(fc_json)[1])
    /\ ~SkipEntry(Entries(fc_json)[2])
    /\ TypeName(Field(Entries(fc_json)[2], "geometry")) = "GeometryCollection"
    /\ \E k \in 1..Len(Field(Field(Entries(fc_json)[2], "geometry"), "geometries").v) :
           SkipNode(Field(Field(Entries(fc_json)[2], "geometry"), "geometries").v[k])
    /\ Len(ret.fc.features) = 1

(* C9: the features are in document order: those of an earlier entry before
   those of a later one, the components of an entry in the order of its
   coordinate sub-arrays or, for collections at any depth, depth first and
   left to right; at every step of the build the features are a prefix of
   that sequence. *)
Ascending(fs) == \A i \in 1..Len(fs) - 1 : LexLess(fs[i].src, fs[i + 1].src)
Described(f, doc, d, crs) ==
    LeafAt(Field(Entries(doc)[f.src[1]], "geometry"), Tail(f.src), d, crs) = Ok(f.geometry)
\* fs holds the first of the positions in `all`: each position is that of a
\* feature of fs or comes after all of them.
InitialSegment(fs, all) ==
    \A p \in all :
        \/ \E i \in 1..Len(fs) : fs[i].src = p
        \/ \A i \in 1..Len(fs) : LexLess(fs[i].src, p)
C9_DocumentOrder ==
    pc \in {"features", "done"} =>
        /\ Ascending(fc.features)
        /\ {fc.features[i].src : i \in 1..Len(fc.features)} = DocPaths(fc_json, feat - 1)
        /\ \A i \in 1..Len(fc.features) : Described(fc.features[i], fc_json, fc.datum, crsVal)
        /\ InitialSegment(fc.features, DocPaths(fc_json, Len(Entries(fc_json))))
        /\ pc = "done" => ret.fc.features = fc.features
C9_Witness ==
    /\ pc = "features"
    /\ Len(Entries(fc_json)) = 2
    /\ feat = 2
    /\ Len(fc.features) = 5
    /\ fc.features[2].src = <<1, 1, 3>>
    /\ fc.features[3].src = <<1, 2, 1>>
    /\ Cardinality(LeafPaths(Field(Entries(fc_json)[2], "geometry"))) = 3

(* C10: when a coordinate array the parser reaches as a point has fewer than
   two elements, at any collection depth, the call aborts with the invalid
   point coordinates error and returns nothing, whatever was parsed before. *)
BadArr(x) == IsArr(x) /\ Len(x.v) < 2
BadIn(list) == IsArr(list) /\ \E i \in 1..Len(list.v) : BadArr(list.v[i])
BadRing(poly) == IsArr(poly) /\ Len(poly.v) > 0 /\ BadIn(poly.v[1])
RECURSIVE ReachesBadPoint(_)
ReachesBadPoint(g) ==
    /\ g.t = "object"
    /\ Has(g, "type")
    /\ CASE TypeName(g) = "Point" -> BadArr(Field(g, "coordinates"))
         [] TypeName(g) \in {"LineString", "MultiPoint"} -> BadIn(Field(g, "coordinates"))
         [] TypeName(g) = "Polygon" -> BadRing(Field(g, "coordinates"))
         [] TypeName(g) = "MultiLineString" ->
              /\ IsArr(Field(g, "coordinates"))
              /\ \E k \in 1..Len(Field(g, "coordinates").v) : BadIn(Field(g, "coordinates").v[k])
         [] TypeName(g) = "MultiPolygon" ->
              /\ IsArr(Field(g, "coordinates"))
              /\ \E k \in 1..Len(Field(g, "coordinates").v) : BadRing(Field(g, "coordinates").v[k])
         [] TypeName(g) = "GeometryCollection" ->
              /\ IsArr(Field(g, "geometries"))
              /\ \E k \in 1..Len(Field(g, "geometries").v) :
                     ReachesBadPoint(Field(g, "geometries").v[k])
         [] OTHER -> FALSE
BadEntry(e) == NotSkipped(e) /\ ReachesBadPoint(Field(e, "geometry"))
C10_BadPointAborts ==
    (fc_json.t = "object" /\ MetadataOk
       /\ \E k \in 1..Len(Entries(fc_json)) : BadEntry(Entries(fc_json)[k])) =>
        /\ ~ret.some
        /\ pc # "done"
        /\ pc = "features" =>
               \E k \in feat..Len(Entries(fc_json)) : BadEntry(Entries(fc_json)[k])
        /\ pc = "failed" => err = "Invalid point coordinates" /\ fc.features = <<>>
C10_Witness ==
    /\ pc = "failed"
    /\ err = "Invalid point coordinates"
    /\ ~ret.some
    /\ Len(Entries(fc_json)) = 2
    /\ ~BadEntry(Entries(fc_json)[1])
    /\ Cardinality(LeafPaths(Field(Entries(fc_json)[1], "geometry"))) = 2
    /\ TypeName(Field(Entries(fc_json)[2], "geometry")) = "GeometryCollection"
    /\ BadEntry(Entries(fc_json)[2])

====
